---- MODULE Spec2Model ----
(***************************************************************************)
(* tower-auth: token issuance, request authorization and character        *)
(* registration/listing handlers of src/auth/main.py, as a state machine. *)
(*                                                                         *)
(* Every handler is a coroutine: an action resumes one request's handler  *)
(* from its current suspension point (pc) and runs it to the next await   *)
(* that really suspends, or to its end.  The token codec (auth.utility:   *)
(* encode_token, decode_token) and the tables' constraints are not part   *)
(* of src/ and are modelled from the specification (sections 3, 4.1, 4.3). *)
(***************************************************************************)
EXTENDS Integers, FiniteSets, Sequences, TLC

\* ------------------------------------------------------------- bounds
\* The clock runs over 0..MaxTime, in hours.
MaxTime == 2
\* Requests in flight at once in the concurrent specification.
MaxConcurrent == 2
\* settings.token_expire_hours is drawn from 0..MaxExpireHours.
MaxExpireHours == 1

\* --------------------------------------------------- program constants
\* timedelta(hours=1) of issue_token_test.
TestTTLHours == 1
\* get_active_user is declared with one parameter ...
GetActiveUserParams == 1
\* ... and issue_token_steam calls it with two positional arguments.
GetActiveUserArgs == 2

\* ------------------------------------------------------------ domains
\* Strings that match USERNAME_PATTERN (6 to 30 of [a-zA-Z0-9_]).
Usernames == {"alice_01", "bob_0002"}
CharacterNames == {"hero_one", "hero_two"}
Platform == {"TEST", "STEAM"}
Status == {"ACTIVE", "INACTIVE", "BLOCKED"}
Race == {"HUMAN"}
\* Signing secrets: the service's and a foreign one.
Keys == {"key_service", "key_other"}
Time == 0..MaxTime
Requests == 1..MaxConcurrent

\* ------------------------------------------------------ Python values
PyNone == [type |-> "NoneType"]
PyBool(b) == [type |-> "bool", value |-> b]
PyList(items) == [type |-> "list", items |-> items]
\* The object a call of an async function returns when it is not awaited.
PyCoroutine(fn, arg) == [type |-> "coroutine", fn |-> fn, arg |-> arg]
PyUser(id, username, platform, status) == [type |-> "User", id |-> id, username |-> username, platform |-> platform, status |-> status]
\* The claims dict decode_token returns.
PyDict(username, platform, exp) == [type |-> "dict", username |-> username, platform |-> platform, exp |-> exp]

\* `x is None`
IsNone(v) == v = PyNone
\* `not x`: None, False and empty containers are falsy.
Falsy(v) == \/ v = PyNone
            \/ v = PyBool(FALSE)
            \/ (v.type = "list" /\ v.items = {})

\* ---------------------------------------------------------- responses
HTTPException(code, detail) == [code |-> code, detail |-> detail]
Response(body) == [code |-> 200, body |-> body]
\* An exception no handler catches: the framework answers 500.
InternalServerError(exc) == [code |-> 500, detail |-> "Internal Server Error", exc |-> exc]
NoResult == [code |-> 0]

VARIABLES
    debug,               \* settings.debug
    token_key,           \* settings.token_key
    token_expire_hours,  \* settings.token_expire_hours
    now,                 \* the wall clock, in hours
    users,               \* table users: username -> row or NoRow
    characters,          \* table characters: committed rows [name, user_id]
    pc,                  \* pc[r]: where request r's handler is suspended
    handler,             \* handler[r]: the endpoint serving request r
    request,             \* request[r]: the request body
    user,                \* user[r]: the local `user` of create_character_test
    conn,                \* conn[r]: r holds a pooled connection
    tx,                  \* tx[r]: rows written on r's connection, not committed
    before,              \* before[r]: history, the committed characters when r arrived
    result               \* result[r]: the response of request r

vars == <<debug, token_key, token_expire_hours, now, users, characters, pc, handler, request, user, conn, tx, before, result>>

settings == <<debug, token_key, token_expire_hours>>
storage == <<users, characters>>


\* -------------------------------------------------------- token codec
\* auth.utility is not among the sources: encode_token and decode_token are
\* modelled from the specification's Token Codec (issue, validate).  A token
\* carries its claims and a signature, which only the signing key reproduces;
\* `key` stands for the key the signature was computed with.
Malformed == [type |-> "garbage"]
Expiries == 0..(MaxTime + TestTTLHours)
Tokens == {Malformed} \cup [type : {"jwt"}, username : Usernames, platform : Platform, exp : Expiries, key : Keys]

\* issue(username, platform, ttl, secret), at clock value `at`.
encode_token(username, platform, ttl, key, at) == [type |-> "jwt", username |-> username, platform |-> platform, exp |-> at + ttl, key |-> key]

\* validate's verdict: the payload parses, then the signature is verified, then
\* the validity window is checked (expiry is exclusive of the current instant).
Validate(jwt, key, at) ==
    IF jwt.type # "jwt" THEN "Malformed"
    ELSE IF jwt.key # key THEN "BadSignature"
    ELSE IF at >= jwt.exp THEN "Expired"
    ELSE "Valid"

\* decode_token: the claims as a dict, or None for every rejection.
decode_token(jwt, key, at) ==
    IF Validate(jwt, key, at) = "Valid"
    THEN PyDict(jwt.username, jwt.platform, jwt.exp)
    ELSE PyNone

\* ------------------------------------------------------------ storage
\* The tables and their constraints are the external store's (spec 3, 4.3).
NoRow == [type |-> "NoRow"]
UserId(username) == IF username = "alice_01" THEN 1 ELSE 2
UserRows(username) == [id : {UserId(username)}, status : Status, platform : Platform]
CharacterRows == [name : CharacterNames, user_id : {UserId(u) : u \in Usernames}, race : Race]

\* Mutant: the table is declared without the constraint.
UniqueNameMissing(rows) == TRUE
\* UNIQUE(characters.name)
UniqueName(rows) == \A a, b \in rows : a.name = b.name => a = b
\* characters.user_id references users.id
OwnerExists(rows, utable) == \A c \in rows : \E u \in Usernames : utable[u] # NoRow /\ utable[u].id = c.user_id

\* What request r's connection reads: the committed rows and its own writes.
View(r) == characters \cup tx[r]

\* SELECT name FROM characters WHERE name = %s, then fetchall(): a list of
\* rows, empty when nothing matches (never None).
SelectCharacterByName(rows, name) == PyList({c.name : c \in {x \in rows : x.name = name}})

\* Mutant: the query without the join on the owner.
SelectCharactersOfAnyone(rows, utable, username) == PyList({c.name : c \in rows})
\* SELECT c.name FROM characters c JOIN users u ON c.user_id = u.id WHERE username = %s
SelectCharactersOf(rows, utable, username) == PyList({c.name : c \in {x \in rows : utable[username] # NoRow /\ utable[username].id = x.user_id}})

\* SELECT id, status, platform FROM users WHERE username = %s, then fetchone()
get_user(utable, username) ==
    IF utable[username] # NoRow
    THEN PyUser(utable[username].id, username, utable[username].platform, utable[username].status)
    ELSE PyNone

\* ------------------------------------------------------ handler steps
\* Mutant: the connection is acquired without `async with` and kept on exit.
FinishKeepsConnection(r, res) ==
    /\ pc' = [pc EXCEPT ![r] = "done"]
    /\ result' = [result EXCEPT ![r] = res]
    /\ UNCHANGED <<conn, tx>>

\* Leaving the handler: the response is set and `async with` releases the
\* connection; what the connection wrote and did not commit is dropped.
Finish(r, res) ==
    /\ pc' = [pc EXCEPT ![r] = "done"]
    /\ result' = [result EXCEPT ![r] = res]
    /\ conn' = [conn EXCEPT ![r] = FALSE]
    /\ tx' = [tx EXCEPT ![r] = {}]

\* Suspending at the next await.
Suspend(r, at) ==
    /\ pc' = [pc EXCEPT ![r] = at]
    /\ UNCHANGED result

Enter(r, name, req) ==
    /\ pc[r] = "idle"
    /\ handler' = [handler EXCEPT ![r] = name]
    /\ request' = [request EXCEPT ![r] = req]
    /\ before' = [before EXCEPT ![r] = characters]

\* Mutant: `if payload is False`, which None passes.
TokenRejectedOnlyFalse(payload) == payload = PyBool(FALSE)
\* Mutant: the test of the decoded payload is left out.
TokenRejectedNever(payload) == FALSE
\* `if not (payload := decode_token(...))`
TokenRejected(payload) == Falsy(payload)
\* Mutant: the claimed username is compared with itself.
UsernameMismatchSelf(payload, req) == payload.username # payload.username
\* `payload["username"] != request.username`
UsernameMismatch(payload, req) == payload.username # req.username
\* `if user := get_user(request.username) is None`: the walrus binds the
\* comparison, and get_user is called without await, so `user` is the bool
\* (coroutine is None).
UserLocal(req) == PyBool(IsNone(PyCoroutine("get_user", req.username)))
\* Mutant: `is None` for `is not None`.
FetchallIsNone(rows) == IsNone(rows)
\* `if await cursor.fetchall() is not None`
FetchallIsNotNone(rows) == ~IsNone(rows)
\* Mutant: the flag is read without the negation.
TestingDisabledInverted == debug
\* `if not settings.debug`
TestingDisabled == ~debug

\* Mutant: the username comparison is left out.
AuthorizeTokenOnly(req) ==
    LET payload == decode_token(req.jwt, token_key, now)
    IN  IF TokenRejected(payload) THEN HTTPException(400, "Invalid token")
        ELSE IF payload.type # "dict" THEN InternalServerError("TypeError")
        ELSE Response("authorized")

\* Mutant: the username is compared on the unverified claims, before the
\* token is validated.
AuthorizeUsernameFirst(req) ==
    LET payload == decode_token(req.jwt, token_key, now)
    IN  IF req.jwt.type = "jwt" /\ req.jwt.username # req.username THEN HTTPException(400, "Invalid username")
        ELSE IF TokenRejected(payload) THEN HTTPException(400, "Invalid token")
        ELSE IF payload.type # "dict" THEN InternalServerError("TypeError")
        ELSE Response("authorized")

\* Mutant: the platform claim of the token is compared with the request's.
AuthorizeBindsPlatform(req) ==
    LET payload == decode_token(req.jwt, token_key, now)
    IN  IF TokenRejected(payload) THEN HTTPException(400, "Invalid token")
        ELSE IF payload.type # "dict" THEN InternalServerError("TypeError")
        ELSE IF UsernameMismatch(payload, req) THEN HTTPException(400, "Invalid username")
        ELSE IF payload.platform # req.platform THEN HTTPException(400, "Invalid platform")
        ELSE Response("authorized")

\* Lines 129-138 and 189-199: the authorization both protected handlers
\* run before their first await.  "ok" or the rejection.
Authorize(req) ==
    LET payload == decode_token(req.jwt, token_key, now)
    IN  IF TokenRejected(payload) THEN HTTPException(400, "Invalid token")
        ELSE IF payload.type # "dict" THEN InternalServerError("TypeError")
        ELSE IF UsernameMismatch(payload, req) THEN HTTPException(400, "Invalid username")
        ELSE Response("authorized")

\* ---------------------------------------------------- request inputs
TokenRequests == [username : Usernames]
ListRequests == [platform : Platform, username : Usernames, jwt : Tokens]
CreateCharacterRequests == [platform : Platform, username : Usernames, jwt : Tokens, character_name : CharacterNames, race : Race]

\* Well-formed traffic for the concurrent specification: tokens the service's
\* key signed, for the TEST platform, that do not expire within the horizon.
LongLivedTokens == {t \in Tokens : t.type = "jwt" /\ t.key = "key_service" /\ t.platform = "TEST" /\ t.exp = MaxTime + TestTTLHours}
ConcurrentListRequests == {q \in ListRequests : q.platform = "TEST" /\ q.jwt \in LongLivedTokens}
ConcurrentCreateRequests == {q \in CreateCharacterRequests : q.platform = "TEST" /\ q.jwt \in LongLivedTokens}

\* ------------------------------------------------------------ actions
\* Mutant: the token is signed with another secret than settings.token_key.
TestTokenForeignKey(req) == encode_token(req.username, "TEST", TestTTLHours, "key_other", now)
\* Lines 106-108: the token issue_token_test signs.
TestToken(req) == encode_token(req.username, "TEST", TestTTLHours, token_key, now)

\* POST /token/test
issue_token_test(r, Inputs) ==
    \E req \in Inputs :
        /\ Enter(r, "issue_token_test", req)
        /\ IF TestingDisabled
           THEN Finish(r, HTTPException(400, "Testing is disabled"))
           ELSE Finish(r, Response([jwt |-> TestToken(req)]))
        /\ UNCHANGED <<settings, now, storage, user>>

\* get_active_user(username): the lookup and the status check.
get_active_user(utable, username) ==
    LET u == get_user(utable, username)
    IN  IF Falsy(u) THEN HTTPException(400, "Incorrect username or platform")
        ELSE IF u.status # "ACTIVE" THEN HTTPException(401, "Inactive user")
        ELSE Response(u)

\* Calling a function with more positional arguments than it declares raises
\* TypeError at the call, before its body runs.
CallAccepted(params, args) == args = params

\* POST /token/steam
issue_token_steam(r, Inputs) ==
    \E req \in Inputs :
        /\ Enter(r, "issue_token_steam", req)
        /\ IF ~CallAccepted(GetActiveUserParams, GetActiveUserArgs)
           THEN Finish(r, InternalServerError("TypeError"))
           ELSE LET found == get_active_user(users, req.username)
                IN  IF found.code # 200
                    THEN Finish(r, found)
                    ELSE Finish(r, Response([jwt |-> encode_token(req.username, "STEAM", token_expire_hours, token_key, now)]))
        /\ UNCHANGED <<settings, now, storage, user>>

\* POST /character/create/test: lines 129-144, up to `db_pool.acquire()`.
CreateStart(r, req) ==
    /\ Enter(r, "create_character_test", req)
    /\ LET auth == Authorize(req)
       IN  IF auth.code # 200
           THEN Finish(r, auth) /\ UNCHANGED user
           ELSE IF ~Falsy(UserLocal(req))
           THEN Finish(r, HTTPException(400, "User not registered")) /\ UNCHANGED user
           ELSE /\ Suspend(r, "acquire")
                /\ user' = [user EXCEPT ![r] = UserLocal(req)]
                /\ UNCHANGED <<conn, tx>>
    /\ UNCHANGED characters

\* `async with db_pool.acquire() as connection, connection.cursor() as cursor`,
\* up to the first `cursor.execute`.
Acquire(r) ==
    /\ conn' = [conn EXCEPT ![r] = TRUE]
    /\ Suspend(r, "select")
    /\ UNCHANGED <<handler, request, before, user, tx, characters>>

\* Mutant: the name is written with REPLACE INTO instead of being checked.
CreateCheckReplaces(r) ==
    /\ LET row == [name |-> request[r].character_name, user_id |-> UserId(request[r].username), race |-> request[r].race]
       IN  characters' = {c \in characters : c.name # row.name} \cup {row}
    /\ Finish(r, Response(PyNone))
    /\ UNCHANGED <<handler, request, before, user>>

\* Lines 147-158: the existence query runs and its result is tested.
CreateCheck(r) ==
    /\ IF FetchallIsNotNone(SelectCharacterByName(View(r), request[r].character_name))
       THEN Finish(r, HTTPException(400, "Name already exist"))
       ELSE Suspend(r, "insert") /\ UNCHANGED <<conn, tx>>
    /\ UNCHANGED <<handler, request, before, user, characters>>

\* Lines 160-164: the INSERT.  Its parameters read user.id; the store refuses
\* a second row of the same name; the handler never commits, so whether the
\* row is durable is the store's (autocommit, storage engine) to decide.  A
\* name another connection has written counts as taken.
CreateInsert(r) ==
    LET visible == View(r) \cup UNION {tx[o] : o \in Requests}
    IN  /\ UNCHANGED <<handler, request, before, user>>
        /\ IF user[r].type # "User"
           THEN Finish(r, InternalServerError("AttributeError")) /\ UNCHANGED characters
           ELSE LET row == [name |-> request[r].character_name, user_id |-> user[r].id, race |-> request[r].race]
                IN  IF ~UniqueName(visible \cup {row})
                    THEN Finish(r, InternalServerError("IntegrityError")) /\ UNCHANGED characters
                    ELSE /\ Suspend(r, "verify")
                         /\ UNCHANGED conn
                         /\ \E durable \in BOOLEAN :
                                IF durable
                                THEN characters' = characters \cup {row} /\ UNCHANGED tx
                                ELSE tx' = [tx EXCEPT ![r] = tx[r] \cup {row}] /\ UNCHANGED characters

\* Lines 166-177: the re-read and its test; falling off the end returns None.
CreateVerify(r) ==
    /\ IF FetchallIsNotNone(SelectCharacterByName(View(r), request[r].character_name))
       THEN Finish(r, HTTPException(400, "Creation failed"))
       ELSE Finish(r, Response(PyNone))
    /\ UNCHANGED <<handler, request, before, user, characters>>

create_character_test(r, Inputs) ==
    /\ IF pc[r] = "idle"
       THEN \E req \in Inputs : CreateStart(r, req)
       ELSE /\ handler[r] = "create_character_test"
            /\ CASE pc[r] = "acquire" -> Acquire(r)
                 [] pc[r] = "select" -> CreateCheck(r)
                 [] pc[r] = "insert" -> CreateInsert(r)
                 [] pc[r] = "verify" -> CreateVerify(r)
                 [] OTHER -> FALSE
    /\ UNCHANGED <<settings, now, users>>

\* Mutant: the listing goes through get_active_user as Steam issuance does.
ListStartRequiresActive(r, req) ==
    /\ Enter(r, "request_characters", req)
    /\ LET auth == Authorize(req)
           active == get_active_user(users, req.username)
       IN  IF auth.code # 200 THEN Finish(r, auth)
           ELSE IF active.code # 200 THEN Finish(r, active)
           ELSE Suspend(r, "acquire") /\ UNCHANGED <<conn, tx>>
    /\ UNCHANGED user

\* POST /characters: lines 189-199, up to `db_pool.acquire()`.
ListStart(r, req) ==
    /\ Enter(r, "request_characters", req)
    /\ LET auth == Authorize(req)
       IN  IF auth.code # 200
           THEN Finish(r, auth)
           ELSE Suspend(r, "acquire") /\ UNCHANGED <<conn, tx>>
    /\ UNCHANGED user

\* The orders in which the store may return a result set.
Orderings(items) == {f \in [1..Cardinality(items) -> items] : \A i, j \in 1..Cardinality(items) : f[i] = f[j] => i = j}

\* Lines 202-217: the query runs and the Characters response is built, one
\* Character appended per row, in the order the store returns the rows.
ListFetch(r) ==
    /\ LET rows == SelectCharactersOf(View(r), users, request[r].username)
       IN  IF Falsy(rows)
           THEN Finish(r, Response([characters |-> <<>>]))
           ELSE \E order \in Orderings(rows.items) :
                    Finish(r, Response([characters |-> [i \in 1..Cardinality(rows.items) |-> [name |-> order[i]]]]))
    /\ UNCHANGED <<handler, request, before, user>>

request_characters(r, Inputs) ==
    /\ IF pc[r] = "idle"
       THEN \E req \in Inputs : ListStart(r, req)
       ELSE /\ handler[r] = "request_characters"
            /\ CASE pc[r] = "acquire" -> Acquire(r)
                 [] pc[r] = "select" -> ListFetch(r)
                 [] OTHER -> FALSE
    /\ UNCHANGED <<settings, now, storage>>

\* GET /healthcheck
healthcheck(r) ==
    /\ Enter(r, "healthcheck", PyNone)
    /\ Finish(r, Response([status |-> "OK"]))
    /\ UNCHANGED <<settings, now, storage, user>>

\* Mutant: the abort leaves behind a row the request had begun to write,
\* without its owner.
AbortLeavesPartialRow(r) ==
    /\ pc[r] \in {"acquire", "select", "insert", "verify"}
    /\ pc' = [pc EXCEPT ![r] = "aborted"]
    /\ conn' = [conn EXCEPT ![r] = FALSE]
    /\ tx' = [tx EXCEPT ![r] = {}]
    /\ IF handler[r] = "create_character_test"
       THEN characters' = characters \cup {[name |-> request[r].character_name, user_id |-> 0, race |-> request[r].race]}
       ELSE UNCHANGED characters
    /\ UNCHANGED <<settings, now, users, handler, request, user, before, result>>

\* The request is aborted (the client disconnects, the task is cancelled) at
\* an await: the exception leaves through `async with`, which releases the
\* connection; no response is produced.
Abort(r) ==
    /\ pc[r] \in {"acquire", "select", "insert", "verify"}
    /\ pc' = [pc EXCEPT ![r] = "aborted"]
    /\ conn' = [conn EXCEPT ![r] = FALSE]
    /\ tx' = [tx EXCEPT ![r] = {}]
    /\ UNCHANGED <<settings, now, storage, handler, request, user, before, result>>

\* The response is sent, or the aborted request is dropped: the request is over.
Respond(r) ==
    /\ pc[r] \in {"done", "aborted"}
    /\ pc' = [pc EXCEPT ![r] = "idle"]
    /\ handler' = [handler EXCEPT ![r] = "none"]
    /\ request' = [request EXCEPT ![r] = PyNone]
    /\ user' = [user EXCEPT ![r] = PyNone]
    /\ before' = [before EXCEPT ![r] = {}]
    /\ result' = [result EXCEPT ![r] = NoResult]
    /\ UNCHANGED <<settings, now, storage, conn, tx>>

\* The wall clock advances.
Tick ==
    /\ now < MaxTime
    /\ now' = now + 1
    /\ UNCHANGED <<settings, storage, pc, handler, request, user, conn, tx, before, result>>

\* An out-of-scope admin action changes a user's status.
AdminSetStatus(username, status) ==
    /\ users[username] # NoRow
    /\ users[username].status # status
    /\ users' = [users EXCEPT ![username].status = status]
    /\ UNCHANGED <<settings, now, characters, pc, handler, request, user, conn, tx, before, result>>

\* ----------------------------------------------------- specifications
\* The state after startup: the settings are read once, the tables hold what
\* the store's constraints allow, no request is in flight.
Init ==
    /\ debug \in BOOLEAN
    /\ token_key = "key_service"
    /\ token_expire_hours = MaxExpireHours
    /\ now = 0
    /\ users \in {f \in [Usernames -> [id : {1, 2}, status : {"ACTIVE"}, platform : {"STEAM"}] \cup {NoRow}] : \A u \in Usernames : f[u] # NoRow => f[u].id = UserId(u)}
    /\ characters \in {c \in SUBSET CharacterRows : UniqueName(c) /\ OwnerExists(c, users)}
    /\ pc = [r \in Requests |-> "idle"]
    /\ handler = [r \in Requests |-> "none"]
    /\ request = [r \in Requests |-> PyNone]
    /\ user = [r \in Requests |-> PyNone]
    /\ conn = [r \in Requests |-> FALSE]
    /\ tx = [r \in Requests |-> {}]
    /\ before = [r \in Requests |-> {}]
    /\ result = [r \in Requests |-> NoResult]

\* One request at a time, over every request a client can send.
Next ==
    \/ issue_token_test(1, TokenRequests)
    \/ issue_token_steam(1, TokenRequests)
    \/ create_character_test(1, CreateCharacterRequests)
    \/ request_characters(1, ListRequests)
    \/ healthcheck(1)
    \/ Abort(1)
    \/ Respond(1)
    \/ Tick
    \/ \E u \in Usernames, s \in Status : AdminSetStatus(u, s)

Spec == Init /\ [][Next]_vars

\* Concurrent requests of well-formed traffic, with the clock and the users
\* table at rest.
NextConcurrent ==
    \E r \in Requests :
        \/ create_character_test(r, ConcurrentCreateRequests)
        \/ request_characters(r, ConcurrentListRequests)
        \/ Abort(r)
        \/ Respond(r)

SpecConcurrent == Init /\ [][NextConcurrent]_vars

TypeOK ==
    /\ debug \in BOOLEAN
    /\ token_key \in Keys
    /\ token_expire_hours \in 0..MaxExpireHours
    /\ now \in Time
    /\ \A u \in Usernames : users[u] = NoRow \/ users[u] \in UserRows(u)
    /\ characters \subseteq CharacterRows
    /\ \A r \in Requests :
        /\ pc[r] \in {"idle", "acquire", "select", "insert", "verify", "done", "aborted"}
        /\ handler[r] \in {"none", "issue_token_test", "issue_token_steam", "create_character_test", "request_characters", "healthcheck"}
        /\ conn[r] \in BOOLEAN
        /\ tx[r] \subseteq CharacterRows
        /\ before[r] \subseteq CharacterRows

\* A request with its platform field and its token's platform claim erased.
Unbind(req) == [req EXCEPT !.platform = "TEST", !.jwt = IF @.type = "jwt" THEN [@ EXCEPT !.platform = "TEST"] ELSE @]
\* The requests that differ from req at most in those two places.
PlatformVariants(req, Inputs) == {q \in Inputs : Unbind(q) = Unbind(req)}

\* Two runs of a protected handler over the same storage state and at the same
\* instant: request 1 is any request, and once it is answered request 2 is
\* one of its platform variants, sent to the same handler.
NextPair ==
    \/ /\ pc[2] = "idle"
       /\ \/ create_character_test(1, CreateCharacterRequests)
          \/ request_characters(1, ListRequests)
          \/ Abort(1)
          \/ Respond(1)
    \/ /\ pc[1] = "done"
       /\ \/ create_character_test(2, IF handler[1] = "create_character_test" THEN PlatformVariants(request[1], CreateCharacterRequests) ELSE {})
          \/ request_characters(2, IF handler[1] = "request_characters" THEN PlatformVariants(request[1], ListRequests) ELSE {})
          \/ Abort(2)
          \/ Respond(2)

SpecPair == Init /\ [][NextPair]_vars

\* ------------------------------------------------------------- claims
Protected == {"create_character_test", "request_characters"}
InvalidToken == HTTPException(400, "Invalid token")
InvalidUsername == HTTPException(400, "Invalid username")
NameTaken == HTTPException(400, "Name already exist")
Created == Response(PyNone)
NamesOf(rows) == {c.name : c \in rows}
TTLs == 0..(TestTTLHours + MaxExpireHours)

\* Request r is being served by a protected handler.
Serving(r) == pc[r] # "idle" /\ handler[r] \in Protected
\* Request r arrives in this step at a protected handler.
Arrives(r) == pc[r] = "idle" /\ pc'[r] # "idle" /\ handler'[r] \in Protected
\* r's token is validly signed and unexpired now (hence also when it was
\* validated, the clock never going back) and names the request's username.
HoldsAuthorization(r) ==
    /\ Validate(request[r].jwt, token_key, now) = "Valid"
    /\ request[r].jwt.username = request[r].username

\* C1: a protected handler given a validly signed, unexpired token whose
\* username differs from the request's username rejects the request with
\* 400 "Invalid username"; the request takes no connection, lists nothing and
\* leaves the characters as they were.
C1_IdentityMismatchRejected ==
    \A r \in Requests :
        (/\ Serving(r)
         /\ Validate(request[r].jwt, token_key, now) = "Valid"
         /\ request[r].jwt.username # request[r].username)
        => /\ pc[r] = "done"
           /\ result[r] = InvalidUsername
           /\ ~conn[r]
           /\ tx[r] = {}
           /\ characters = before[r]

C1_Witness ==
    \E r \in Requests :
        /\ handler[r] = "create_character_test"
        /\ pc[r] = "done"
        /\ Validate(request[r].jwt, token_key, now) = "Valid"
        /\ request[r].jwt.username # request[r].username
        /\ result[r] = InvalidUsername

\* The codec on expired tokens, at every clock value.
ExpiredIsRejected ==
    /\ \A t \in Tokens \ {Malformed}, at \in Time :
        at >= t.exp => /\ Validate(t, t.key, at) = "Expired"
                       /\ \A k \in Keys : decode_token(t, k, at) = PyNone
    /\ \A u \in Usernames, p \in Platform, k \in Keys, at \in Time :
        decode_token(encode_token(u, p, 0, k, at), k, at) = PyNone

\* C2: a token presented at or after its expiry is never accepted: the
\* protected handler that receives it at clock value now >= exp answers
\* 400 "Invalid token" in that step; validation's verdict for such a token
\* under its own key is Expired; and a token issued with ttl = 0 is rejected
\* at the instant of its issue.
C2_ExpiredTokenRejected ==
    [][/\ ExpiredIsRejected
       /\ \A r \in Requests :
            (/\ Arrives(r)
             /\ request'[r].jwt.type = "jwt"
             /\ now >= request'[r].jwt.exp)
            => /\ pc'[r] = "done"
               /\ result'[r] = InvalidToken
      ]_vars

C2_Witness ==
    \E r \in Requests :
        /\ Serving(r)
        /\ request[r].jwt.type = "jwt"
        /\ request[r].jwt.key = token_key
        /\ request[r].jwt.username = request[r].username
        /\ request[r].jwt.exp = now
        /\ now > 0
        /\ result[r] = InvalidToken

\* C3: two registrations of the same fresh character name, both authorized
\* and in flight together, end with one of them created and the other
\* rejected with NameTaken.
C3_ExactlyOneSuccess ==
    \A a, b \in Requests :
        (/\ a # b
         /\ handler[a] = "create_character_test" /\ pc[a] = "done"
         /\ handler[b] = "create_character_test" /\ pc[b] = "done"
         /\ HoldsAuthorization(a) /\ HoldsAuthorization(b)
         /\ request[a].character_name = request[b].character_name
         /\ request[a].character_name \notin NamesOf(before[a])
         /\ request[b].character_name \notin NamesOf(before[b]))
        => \/ result[a] = Created /\ result[b] = NameTaken
           \/ result[a] = NameTaken /\ result[b] = Created

C5_TestingDisabledRefuses ==
    \A r \in Requests :
        (handler[r] = "issue_token_test" /\ pc[r] = "done" /\ ~debug)
        => result[r] = HTTPException(400, "Testing is disabled")

C5_Witness ==
    \E r \in Requests :
        /\ handler[r] = "issue_token_test"
        /\ pc[r] = "done"
        /\ ~debug
        /\ result[r].code = 400

\* C6: issue_token_steam answers 400 (unknown user) when the users table has
\* no row for the username, 401 (inactive user) when the row's status is not
\* ACTIVE, and a token only when the row exists and is ACTIVE.
C6_SteamIssuanceChecksUser ==
    [][\A r \in Requests :
        (pc[r] = "idle" /\ handler'[r] = "issue_token_steam")
        => LET row == users[request'[r].username]
           IN  /\ row = NoRow => result'[r] = HTTPException(400, "Incorrect username or platform")
               /\ (row # NoRow /\ row.status # "ACTIVE") => result'[r] = HTTPException(401, "Inactive user")
               /\ result'[r].code = 200 => (row # NoRow /\ row.status = "ACTIVE")
      ]_vars

\* The codec on its own tokens, within their lifetime.
CodecRoundTrip ==
    \A u \in Usernames, p \in Platform, k \in Keys, ttl \in TTLs, a \in Time, t \in Time :
        (a <= t /\ t < a + ttl)
        => decode_token(encode_token(u, p, ttl, k, a), k, t) = [type |-> "dict", username |-> u, platform |-> p, exp |-> a + ttl]

ForeignKeyIsBadSignature ==
    \A t \in Tokens \ {Malformed}, k \in Keys, at \in Time :
        k # t.key => /\ Validate(t, k, at) = "BadSignature"
                     /\ decode_token(t, k, at) = PyNone

\* C8: a token signed with another secret than the service's is rejected as
\* BadSignature by validation, whatever its claims, and the protected handler
\* that receives it answers 400 "Invalid token" without going further.
C8_ForeignSignatureRejected ==
    /\ ForeignKeyIsBadSignature
    /\ \A r \in Requests :
        (Serving(r) /\ request[r].jwt.type = "jwt" /\ request[r].jwt.key # token_key)
        => /\ pc[r] = "done"
           /\ result[r] = InvalidToken
           /\ ~conn[r]

C8_Witness ==
    \E r \in Requests :
        /\ Serving(r)
        /\ request[r].jwt.type = "jwt"
        /\ request[r].jwt.key # token_key
        /\ request[r].jwt.username = request[r].username
        /\ request[r].jwt.exp > now
        /\ result[r] = InvalidToken

\* C9: a registration with a valid token that names the request's username,
\* for a registered user and a character name no row had when the request
\* arrived, is answered 200 and leaves exactly one new row, of that name and
\* owned by that user.
C9_RegistrationSucceeds ==
    \A r \in Requests :
        (/\ handler[r] = "create_character_test"
         /\ pc[r] = "done"
         /\ HoldsAuthorization(r)
         /\ users[request[r].username] # NoRow
         /\ request[r].character_name \notin NamesOf(before[r]))
        => /\ result[r] = Created
           /\ characters = before[r] \cup {[name |-> request[r].character_name, user_id |-> users[request[r].username].id, race |-> request[r].race]}

\* C10: a registration of a name some row already has is rejected with 400
\* "Name already exist" and the character set is what it was: no row added,
\* the existing row with its owner.
C10_ExistingNameRejected ==
    \A r \in Requests :
        (/\ handler[r] = "create_character_test"
         /\ pc[r] = "done"
         /\ HoldsAuthorization(r)
         /\ request[r].character_name \in NamesOf(before[r]))
        => /\ result[r] = NameTaken
           /\ characters = before[r]

C10_Witness ==
    \E r \in Requests :
        /\ handler[r] = "create_character_test"
        /\ pc[r] = "done"
        /\ HoldsAuthorization(r)
        /\ users[request[r].username] # NoRow
        /\ \E c \in before[r] : c.name = request[r].character_name /\ c.user_id # users[request[r].username].id
        /\ result[r] = NameTaken

UserNotRegistered == HTTPException(400, "User not registered")
InFlight == {"acquire", "select", "insert", "verify"}
Ended == {"idle", "done", "aborted"}

\* C11: a registration that passes token validation and the username
\* comparison for a username with no row in users is rejected with 400
\* "User not registered" and inserts nothing.
C11_UnregisteredUserRejected ==
    \A r \in Requests :
        (/\ handler[r] = "create_character_test"
         /\ pc[r] = "done"
         /\ HoldsAuthorization(r)
         /\ users[request[r].username] = NoRow)
        => /\ result[r] = UserNotRegistered
           /\ characters = before[r]

\* C12: a listing that is answered returns the names of exactly the
\* characters owned by the user of the request's username, each once, in
\* some order (the empty sequence when the user owns none); an authorized
\* listing is always answered.
C12_ListingReturnsOwnCharacters ==
    \A r \in Requests :
        (handler[r] = "request_characters" /\ pc[r] = "done")
        => /\ HoldsAuthorization(r) => result[r].code = 200
           /\ result[r].code = 200 =>
                LET out == result[r].body.characters
                    owned == {c.name : c \in {x \in characters : x.user_id = UserId(request[r].username)}}
                IN  /\ {out[i].name : i \in DOMAIN out} = owned
                    /\ DOMAIN out = 1..Cardinality(owned)

C12_Witness ==
    \E r \in Requests :
        /\ handler[r] = "request_characters"
        /\ pc[r] = "done"
        /\ result[r].code = 200
        /\ result[r].body.characters # <<>>
        /\ \E c \in characters : c.user_id # UserId(request[r].username)

\* C13: with debug on, issue_token_test returns a token carrying the
\* request's username, platform TEST and an expiry one hour after the issue;
\* issue_token_steam returns, for an ACTIVE user, a token carrying the
\* username, platform STEAM and an expiry token_expire_hours after the issue.
C13_IssuanceBindsPlatformAndLifetime ==
    [][\A r \in Requests :
        (pc[r] = "idle" /\ pc'[r] = "done")
        => /\ (handler'[r] = "issue_token_test" /\ debug)
              => /\ result'[r].code = 200
                 /\ result'[r].body.jwt.username = request'[r].username
                 /\ result'[r].body.jwt.platform = "TEST"
                 /\ result'[r].body.jwt.exp = now + TestTTLHours
           /\ (/\ handler'[r] = "issue_token_steam"
               /\ users[request'[r].username] # NoRow
               /\ users[request'[r].username].status = "ACTIVE")
              => /\ result'[r].code = 200
                 /\ result'[r].body.jwt.username = request'[r].username
                 /\ result'[r].body.jwt.platform = "STEAM"
                 /\ result'[r].body.jwt.exp = now + token_expire_hours
      ]_vars

\* C14: a protected handler goes on to its awaits only from an arrival whose
\* token validated and whose username matched; a connection is taken, and a
\* character written, only by a request that is past that point; a request
\* rejected on arrival ends there, without a connection and without a write.
C14_AuthorizationPrecedesStorage ==
    [][\A r \in Requests :
        /\ (Arrives(r) /\ pc'[r] \in InFlight)
           => /\ Validate(request'[r].jwt, token_key, now) = "Valid"
              /\ request'[r].jwt.username = request'[r].username
        /\ (pc'[r] \in InFlight /\ pc[r] \notin InFlight) => Arrives(r)
        /\ (pc[r] \in InFlight /\ pc'[r] # "idle") => (request'[r] = request[r] /\ handler'[r] = handler[r])
        /\ (conn'[r] /\ ~conn[r]) => pc[r] = "acquire"
        /\ (Arrives(r) /\ pc'[r] = "done") => (~conn'[r] /\ characters' = characters)
        /\ pc[r] \in {"done", "aborted"} => (~conn'[r] /\ pc'[r] \in {pc[r], "idle"})
        /\ characters' # characters => \E q \in Requests : pc[q] = "insert" /\ handler[q] = "create_character_test"
      ]_vars

C14_Witness ==
    \E r \in Requests :
        /\ handler[r] = "create_character_test"
        /\ pc[r] = "select"
        /\ conn[r]
        /\ HoldsAuthorization(r)

\* C15: on arrival at a protected handler a token the codec rejects is
\* answered 400 "Invalid token" whatever the request's username; "Invalid
\* username" is answered only for a token that validates; and "User not
\* registered" and "Name already exist" are answered only to requests whose
\* token validated and whose username matched.
C15_RejectionPrecedence ==
    [][\A r \in Requests :
        /\ Arrives(r)
           => LET verdict == Validate(request'[r].jwt, token_key, now)
              IN  /\ verdict # "Valid" => (pc'[r] = "done" /\ result'[r] = InvalidToken)
                  /\ result'[r] = InvalidUsername => (verdict = "Valid" /\ request'[r].jwt.username # request'[r].username)
                  /\ result'[r] = UserNotRegistered => (verdict = "Valid" /\ request'[r].jwt.username = request'[r].username)
        /\ (result'[r] = NameTaken /\ result[r] # NameTaken)
           => /\ pc[r] = "select"
              /\ request[r].jwt.type = "jwt"
              /\ request[r].jwt.key = token_key
              /\ request[r].jwt.username = request[r].username
      ]_vars

C15_Witness ==
    \E r \in Requests :
        /\ handler[r] = "create_character_test"
        /\ pc[r] = "done"
        /\ request[r].jwt.type = "jwt"
        /\ request[r].jwt.exp <= now
        /\ request[r].jwt.username # request[r].username
        /\ users[request[r].username] = NoRow
        /\ request[r].character_name \in NamesOf(characters)
        /\ result[r] = InvalidToken

\* C16: a request that has ended (answered or aborted) holds no connection
\* and has no uncommitted write; when every request has ended, none is held.
C16_ConnectionsReleased ==
    \A r \in Requests : pc[r] \in Ended => (~conn[r] /\ tx[r] = {})

C16_Witness ==
    \E a, b \in Requests :
        /\ handler[a] = "create_character_test" /\ pc[a] = "done" /\ result[a] = NameTaken
        /\ handler[b] = "request_characters" /\ pc[b] = "aborted"
        /\ \A r \in Requests : pc[r] \in Ended /\ ~conn[r]

C18_CoreFrame ==
    [][\A r \in Requests :
        pc'[r] # pc[r]
        => /\ users' = users
           /\ characters \subseteq characters'
           /\ (IF pc[r] = "idle" THEN handler'[r] ELSE handler[r]) # "create_character_test" => characters' = characters
           /\ characters' # characters
              => /\ pc[r] = "insert"
                 /\ \E row \in CharacterRows :
                        /\ row.name = request[r].character_name
                        /\ row.name \notin NamesOf(characters)
                        /\ characters' = characters \cup {row}
      ]_vars

C18_Witness ==
    \E r \in Requests :
        /\ handler[r] = "issue_token_test"
        /\ pc[r] = "done"
        /\ result[r].code = 200
        /\ characters # {}
        /\ characters = before[r]
        /\ users[request[r].username] # NoRow

\* C19: an authorized listing is answered with a character list whether or
\* not the username has a user record and whatever the record's status is.
C19_ListingIgnoresUserDirectory ==
    \A r \in Requests :
        (/\ handler[r] = "request_characters"
         /\ pc[r] = "done"
         /\ HoldsAuthorization(r))
        => /\ result[r].code = 200
           /\ DOMAIN result[r].body = {"characters"}

C19_Witness ==
    \E r \in Requests :
        /\ handler[r] = "request_characters"
        /\ pc[r] = "done"
        /\ result[r].code = 200
        /\ users[request[r].username] # NoRow
        /\ users[request[r].username].status = "BLOCKED"
        /\ request[r].jwt.exp = now + 1

\* What a client can tell from a response, the order of a list apart.
Outcome(res) ==
    IF res.code = 200 /\ res.body # PyNone
    THEN {res.body.characters[i].name : i \in DOMAIN res.body.characters}
    ELSE {res}

\* C20: two answered requests to the same protected handler that differ
\* only in the platform field or in the platform claim of the token, served
\* from the same characters, get the same outcome; and a token of platform
\* TEST for a username passes authorization on a request of platform STEAM.
C20_PlatformNotBound ==
    /\ (/\ pc[1] = "done" /\ pc[2] = "done"
        /\ handler[1] = handler[2]
        /\ Unbind(request[1]) = Unbind(request[2])
        /\ before[1] = before[2])
       => Outcome(result[1]) = Outcome(result[2])
    /\ \A r \in {1, 2} :
        (/\ Serving(r) /\ pc[r] = "done"
         /\ request[r].platform = "STEAM"
         /\ request[r].jwt.type = "jwt" /\ request[r].jwt.platform = "TEST"
         /\ HoldsAuthorization(r))
        => result[r] \notin {InvalidToken, InvalidUsername}

C20_Witness ==
    /\ pc[1] = "done" /\ pc[2] = "done"
    /\ handler[1] = "request_characters" /\ handler[2] = "request_characters"
    /\ request[1].platform = "TEST" /\ request[2].platform = "STEAM"
    /\ request[1].jwt.type = "jwt" /\ request[2].jwt.type = "jwt"
    /\ request[1].jwt.platform = "STEAM" /\ request[2].jwt.platform = "TEST"
    /\ result[2].code = 200
    /\ result[2].body.characters # <<>>
====
